---- MODULE Spec2Model ----
(***************************************************************************)
(* The YML editor of src/src/components/YmlEditor.tsx: the three buffers   *)
(* (input, output, error), the debounced edit, the Format / Validate /     *)
(* AutoFix handlers, and the body of autoFixYaml (normalizer, line         *)
(* classifier, indent reconstruction loop) unfolded statement by           *)
(* statement.  A text is a sequence of one-character strings.              *)
(***************************************************************************)
EXTENDS Integers, Sequences, FiniteSets, TLC

VARIABLES
    input,              \* useState "input"  (YmlEditor.tsx:20)
    output,             \* useState "output" (YmlEditor.tsx:21)
    error,              \* useState "error"  (YmlEditor.tsx:22)
    timer,              \* the pending timeout of debounce (YmlEditor.tsx:12)
    toasts,             \* the notifications issued by the last handler
    lastOp,             \* the handler that ran last and how it ended
    loaded,             \* what yaml.load answered for each text parsed so far
    pc,                 \* position inside the unfolded autoFixYaml body
    fixed,              \* local "fixed"  (YmlEditor.tsx:54)
    lines,              \* local "lines"  (YmlEditor.tsx:68)
    i,                  \* loop index     (YmlEditor.tsx:81)
    out,                \* local "out"    (YmlEditor.tsx:76)
    mappingStack,       \* local "mappingStack" (YmlEditor.tsx:77)
    lastListIndent,     \* local "lastListIndent" (YmlEditor.tsx:78)
    lastListBlockStart, \* local "lastListBlockStart" (YmlEditor.tsx:79)
    rule                \* the branch of the loop body each processed line took

editorVars == <<input, output, error, timer, toasts, lastOp, loaded>>
fixVars == <<pc, fixed, lines, i, out, mappingStack, lastListIndent, lastListBlockStart, rule>>
vars == <<input, output, error, timer, toasts, lastOp, loaded,
          pc, fixed, lines, i, out, mappingStack, lastListIndent, lastListBlockStart, rule>>

----------------------------------------------------------------------------
(* Bounds of the input spaces.                                              *)

MaxLen == 4        \* longest character-level input text
MaxLines == 3      \* most lines of a line-structured input text
MaxRunLines == 4   \* most lines of a text made of keys, list items and blanks
MaxIndent == 2     \* deepest original indent of a line-structured input line
MaxParsed == 2     \* most distinct texts handed to yaml.load in one run of the editor

----------------------------------------------------------------------------
(* Characters and the character classes the regular expressions use.        *)

SP == " "
TAB == "\t"
CR == "\r"
LF == "\n"
FF == "\f"

\* JavaScript's \s restricted to the characters of the model.
IsSpace(c) == c \in {SP, TAB, CR, LF, FF}

\* (?:\]|\}) of the second comma expression.
IsCloser(c) == c \in {"]", "}"}

\* " ".repeat(n)
Spaces(n) == [k \in 1..n |-> SP]

----------------------------------------------------------------------------
(* Normalizer: YmlEditor.tsx lines 54-65.                                   *)

\* A variant of ReplaceCRLF that leaves the text as it is.
ReplaceCRLFSkipped(s) == s

RECURSIVE ReplaceCRLF(_)
\* .replace(/\r\n/g, "\n")
ReplaceCRLF(s) ==
    IF s = <<>> THEN <<>>
    ELSE IF Len(s) >= 2 /\ s[1] = CR /\ s[2] = LF
         THEN <<LF>> \o ReplaceCRLF(SubSeq(s, 3, Len(s)))
         ELSE <<s[1]>> \o ReplaceCRLF(Tail(s))

RECURSIVE ReplaceCR(_)
\* .replace(/\r/g, "\n")
ReplaceCR(s) ==
    IF s = <<>> THEN <<>>
    ELSE <<(IF s[1] = CR THEN LF ELSE s[1])>> \o ReplaceCR(Tail(s))

RECURSIVE ReplaceFirstTab(_)
\* .replace(/\t/, "  "): the expression without its g flag.
ReplaceFirstTab(s) ==
    IF s = <<>> THEN <<>>
    ELSE IF s[1] = TAB THEN <<SP, SP>> \o Tail(s)
         ELSE <<s[1]>> \o ReplaceFirstTab(Tail(s))

RECURSIVE ReplaceTabs(_)
\* .replace(/\t/g, "  ")
ReplaceTabs(s) ==
    IF s = <<>> THEN <<>>
    ELSE (IF s[1] = TAB THEN <<SP, SP>> ELSE <<s[1]>>) \o ReplaceTabs(Tail(s))

RECURSIVE Split(_)
\* .split("\n"): the pieces between line feeds; "" splits into one empty piece.
Split(s) ==
    IF \A k \in 1..Len(s) : s[k] # LF THEN <<s>>
    ELSE LET p == CHOOSE k \in 1..Len(s) : s[k] = LF /\ \A j \in 1..(k-1) : s[j] # LF
         IN <<SubSeq(s, 1, p - 1)>> \o Split(SubSeq(s, p + 1, Len(s)))

RECURSIVE Join(_)
\* .join("\n")
Join(ls) ==
    IF ls = <<>> THEN <<>>
    ELSE IF Len(ls) = 1 THEN ls[1]
         ELSE ls[1] \o <<LF>> \o Join(Tail(ls))

RECURSIVE StripTrailing(_)
\* l.replace(/\s+$/, "")
StripTrailing(l) ==
    IF l # <<>> /\ IsSpace(l[Len(l)]) THEN StripTrailing(SubSeq(l, 1, Len(l) - 1))
    ELSE l

\* .split("\n").map((l) => l.replace(/\s+$/, "")).join("\n")
StripLines(s) ==
    LET ls == Split(s) IN Join([k \in 1..Len(ls) |-> StripTrailing(ls[k])])

RECURSIVE WsThenLF(_)
\* Whether (\s*\n) matches at the start of s.
WsThenLF(s) ==
    /\ s # <<>>
    /\ \/ s[1] = LF
       \/ IsSpace(s[1]) /\ WsThenLF(Tail(s))

RECURSIVE WsThenCloser(_)
\* Whether (\s*(?:\]|\})) matches at the start of s.
WsThenCloser(s) ==
    /\ s # <<>>
    /\ \/ IsCloser(s[1])
       \/ IsSpace(s[1]) /\ WsThenCloser(Tail(s))

RECURSIVE RemoveCommaBeforeLF(_)
\* .replace(/,(\s*\n)/g, "$1"): the matched white space holds no comma, so
\* each match drops exactly its comma.
RemoveCommaBeforeLF(s) ==
    IF s = <<>> THEN <<>>
    ELSE IF s[1] = "," /\ WsThenLF(Tail(s)) THEN RemoveCommaBeforeLF(Tail(s))
         ELSE <<s[1]>> \o RemoveCommaBeforeLF(Tail(s))

RECURSIVE RemoveCommaBeforeCloser(_)
\* .replace(/,(\s*(?:\]|\}))/g, "$1")
RemoveCommaBeforeCloser(s) ==
    IF s = <<>> THEN <<>>
    ELSE IF s[1] = "," /\ WsThenCloser(Tail(s)) THEN RemoveCommaBeforeCloser(Tail(s))
         ELSE <<s[1]>> \o RemoveCommaBeforeCloser(Tail(s))

\* Lines 55-65: the value of "fixed" before the split of line 67.
Normalize(s) ==
    RemoveCommaBeforeCloser(RemoveCommaBeforeLF(
        StripLines(ReplaceTabs(ReplaceCR(ReplaceCRLF(s))))))

----------------------------------------------------------------------------
(* Line classifier: YmlEditor.tsx lines 67-74.                              *)

RECURSIVE LeadingSpace(_)
\* (raw.match(/^(\s*)/) || ["", ""])[1].length
LeadingSpace(raw) ==
    IF raw # <<>> /\ IsSpace(raw[1]) THEN 1 + LeadingSpace(Tail(raw)) ELSE 0

\* raw.trim()
Trim(raw) ==
    LET r == StripTrailing(raw) IN SubSeq(r, LeadingSpace(r) + 1, Len(r))

\* /^-\s+/.test(trimmed)
IsList(trimmed) == Len(trimmed) >= 2 /\ trimmed[1] = "-" /\ IsSpace(trimmed[2])

\* /:$/.test(trimmed)
IsKey(trimmed) == trimmed # <<>> /\ trimmed[Len(trimmed)] = ":"

\* The record built for one raw line (lines 68-74).
Classify(raw, idx) ==
    [raw |-> raw, indent |-> LeadingSpace(raw), trimmed |-> Trim(raw),
     isList |-> IsList(Trim(raw)), isKey |-> IsKey(Trim(raw)), idx |-> idx]

\* rawLines.map(...) of lines 67-74; idx is 0-based as in the source.
ClassifyAll(s) ==
    LET rawLines == Split(s) IN [k \in 1..Len(rawLines) |-> Classify(rawLines[k], k - 1)]

----------------------------------------------------------------------------
(* Indent reconstruction loop: YmlEditor.tsx lines 76-130.                  *)

\* lastListIndent is "number | null": <<>> is null, <<n>> is the number n.
NULL == <<>>
Some(n) == <<n>>

\* What lastOp records: the handler that ran last and whether it succeeded.
Op(op, ok) == [op |-> op, ok |-> ok]

RECURSIVE PopStackLess(_, _)
\* A variant of PopStack that keeps an entry equal to the line's indent.
PopStackLess(stack, indent) ==
    IF stack # <<>> /\ indent < stack[Len(stack)]
    THEN PopStackLess(SubSeq(stack, 1, Len(stack) - 1), indent)
    ELSE stack

RECURSIVE PopStack(_, _)
\* Lines 89-93: while (mappingStack.length && indent <= top) mappingStack.pop()
PopStack(stack, indent) ==
    IF stack # <<>> /\ indent <= stack[Len(stack)]
    THEN PopStack(SubSeq(stack, 1, Len(stack) - 1), indent)
    ELSE stack

\* A variant of Branch that tests isList before isKey.
BranchListFirst(L, stack, lli) ==
    IF L.trimmed = <<>> THEN "blank"
    ELSE IF L.isList THEN
        IF stack # <<>> THEN "listUnderKey"
        ELSE IF lli # NULL THEN "listInRun"
        ELSE "listTop"
    ELSE IF L.isKey THEN "key"
    ELSE "other"

\* The branch of the loop body a line takes, in the order the source tests
\* them: blank (84), key (95), list under a mapping (104), list continuing a
\* run (113), list at top level (119), anything else (125).  "stack" is the
\* mapping stack after the pop loop.
Branch(L, stack, lli) ==
    IF L.trimmed = <<>> THEN "blank"
    ELSE IF L.isKey THEN "key"
    ELSE IF L.isList THEN
        IF stack # <<>> THEN "listUnderKey"
        ELSE IF lli # NULL THEN "listInRun"
        ELSE "listTop"
    ELSE "other"

ListBranches == {"listUnderKey", "listInRun", "listTop"}

\* A variant of ListTarget that nests by four columns.
ListTargetFour(parentIndent) == parentIndent + 4

\* Line 106: const target = parentIndent + 2
ListTarget(parentIndent) == parentIndent + 2

\* A variant of RunIndent that keeps the line's own indent.
RunIndentOwn(L, lli) == L.indent

\* Line 114: the indent of a list item that continues a run, lastListIndent.
RunIndent(L, lli) == lli[1]

\* A variant of TopIndent that keeps the line's own indent.
TopIndentOwn(L) == L.indent

\* Lines 119-120: the indent of a list item that starts a run at top level.
TopIndent(L) == 0

\* A variant of EmitOwn that drops the indentation.
EmitOwnTrimmed(L) == L.trimmed

\* Lines 96 and 125: " ".repeat(indent) + trimmed, the text emitted for a key
\* line and for any other non-list line.
EmitOwn(L) == Spaces(L.indent) \o L.trimmed

\* A variant of BlankStep that also ends the current list run.
BlankStepResetsRun(L, st) ==
    [st EXCEPT !.out = Append(@, L.raw), !.lastListIndent = NULL,
               !.lastListBlockStart = -1]

\* Lines 84-87: a blank line is pushed as it is and the iteration ends; the
\* mapping stack and the list-run variables are not touched.
BlankStep(L, st) == [st EXCEPT !.out = Append(@, L.raw)]

\* One iteration of the for loop (lines 82-127) on line record L at index k;
\* st holds out, mappingStack, lastListIndent and lastListBlockStart.
LoopBody(L, k, st) ==
    LET stack == IF L.trimmed = <<>> THEN st.mappingStack
                 ELSE PopStack(st.mappingStack, L.indent)
        b == Branch(L, stack, st.lastListIndent)
    IN  CASE b = "blank" ->
               BlankStep(L, st)
          [] b = "key" ->
               [out |-> Append(st.out, EmitOwn(L)),
                mappingStack |-> Append(stack, L.indent),
                lastListIndent |-> NULL,
                lastListBlockStart |-> -1]
          [] b = "listUnderKey" ->
               LET parentIndent == stack[Len(stack)]
                   target == ListTarget(parentIndent)
               IN  [out |-> Append(st.out, Spaces(target) \o L.trimmed),
                    mappingStack |-> stack,
                    lastListIndent |-> Some(target),
                    lastListBlockStart |-> k]
          [] b = "listInRun" ->
               [out |-> Append(st.out, Spaces(RunIndent(L, st.lastListIndent)) \o L.trimmed),
                mappingStack |-> stack,
                lastListIndent |-> st.lastListIndent,
                lastListBlockStart |-> k]
          [] b = "listTop" ->
               [out |-> Append(st.out, Spaces(TopIndent(L)) \o L.trimmed),
                mappingStack |-> stack,
                lastListIndent |-> Some(TopIndent(L)),
                lastListBlockStart |-> k]
          [] OTHER ->
               [out |-> Append(st.out, EmitOwn(L)),
                mappingStack |-> stack,
                lastListIndent |-> NULL,
                lastListBlockStart |-> -1]

\* The branch taken by line record L in loop state st.
BranchOf(L, st) ==
    Branch(L, IF L.trimmed = <<>> THEN st.mappingStack
              ELSE PopStack(st.mappingStack, L.indent), st.lastListIndent)

\* Lines 76-79: the loop state before the first line.
LoopInit ==
    [out |-> <<>>, mappingStack |-> <<>>, lastListIndent |-> NULL,
     lastListBlockStart |-> -1]

RECURSIVE RunLoop(_, _, _)
\* The whole for loop of lines 81-128 from index k (0-based) on.
RunLoop(ls, k, st) ==
    IF k >= Len(ls) THEN st ELSE RunLoop(ls, k + 1, LoopBody(ls[k + 1], k, st))

\* Lines 67-130: classify, run the loop, join.
Reconstruct(s) == Join(RunLoop(ClassifyAll(s), 0, LoopInit).out)

\* Lines 54-130: the text handed to the strict parser at line 133.
FixText(s) == Reconstruct(Normalize(s))

----------------------------------------------------------------------------
(* The body of autoFixYaml unfolded: lines 54-130.                          *)

\* Lines 54-79: normalize, classify, initialise the loop state.
FixNormalize ==
    /\ pc = "start"
    /\ fixed' = Normalize(input)
    /\ lines' = ClassifyAll(Normalize(input))
    /\ out' = LoopInit.out
    /\ mappingStack' = LoopInit.mappingStack
    /\ lastListIndent' = LoopInit.lastListIndent
    /\ lastListBlockStart' = LoopInit.lastListBlockStart
    /\ i' = 0
    /\ rule' = <<>>
    /\ pc' = "loop"
    /\ UNCHANGED editorVars

\* Lines 81-128: one iteration of the loop.
FixLoop ==
    /\ pc = "loop"
    /\ i < Len(lines)
    /\ LET st == [out |-> out, mappingStack |-> mappingStack,
                  lastListIndent |-> lastListIndent,
                  lastListBlockStart |-> lastListBlockStart]
           nx == LoopBody(lines[i + 1], i, st)
       IN  /\ out' = nx.out
           /\ mappingStack' = nx.mappingStack
           /\ lastListIndent' = nx.lastListIndent
           /\ lastListBlockStart' = nx.lastListBlockStart
           /\ rule' = Append(rule, BranchOf(lines[i + 1], st))
    /\ i' = i + 1
    /\ UNCHANGED <<pc, fixed, lines>>
    /\ UNCHANGED editorVars

\* Line 130: fixed = out.join("\n")
FixJoin ==
    /\ pc = "loop"
    /\ i = Len(lines)
    /\ fixed' = Join(out)
    /\ pc' = "joined"
    /\ UNCHANGED <<lines, i, out, mappingStack, lastListIndent, lastListBlockStart, rule>>
    /\ UNCHANGED editorVars

NextFix == FixNormalize \/ FixLoop \/ FixJoin

----------------------------------------------------------------------------
(* Input spaces of the unfolded body.                                       *)

Alphabet == {"a", ",", "]", "-", ":", SP, TAB, CR, LF, FF}

\* Every text of at most MaxLen characters.
CharTexts == UNION {[1..n -> Alphabet] : n \in 0..MaxLen}

\* Trimmed contents of a line: a key, a list item, a list item that opens a
\* key, a scalar.
KeyLine == <<"a", ":">>
ItemLine == <<"-", SP, "1">>
ItemKeyLine == <<"-", SP, "b", ":">>
ScalarLine == <<"x">>
Contents == {KeyLine, ItemLine, ItemKeyLine, ScalarLine}

\* A blank line, or one of the contents cs at an indent of 0..MaxIndent spaces.
LineShapes(cs) == {<<>>} \cup {Spaces(n) \o c : n \in 0..MaxIndent, c \in cs}

\* Every sequence of 1..n lines of the shapes.
LineSeqs(cs, n) == UNION {[1..m -> LineShapes(cs)] : m \in 1..n}

\* The editor holding text t, about to run autoFixYaml.
FixStart(t) ==
    /\ input = t
    /\ output = <<>>
    /\ error = <<>>
    /\ timer = NULL
    /\ toasts = <<>>
    /\ lastOp = Op("none", TRUE)
    /\ loaded = <<>>
    /\ pc = "start"
    /\ fixed = <<>>
    /\ lines = <<>>
    /\ i = 0
    /\ out = <<>>
    /\ mappingStack = <<>>
    /\ lastListIndent = NULL
    /\ lastListBlockStart = -1
    /\ rule = <<>>

InitNorm == \E t \in CharTexts : FixStart(t)
InitFix == \E ls \in LineSeqs(Contents, MaxLines) : FixStart(Join(ls))
InitRun == \E ls \in LineSeqs({KeyLine, ItemLine}, MaxRunLines) : FixStart(Join(ls))

\* autoFixYaml's pure part on every short character-level text.
SpecNorm == InitNorm /\ [][NextFix]_vars

\* autoFixYaml's pure part on every text of a few lines of every shape.
SpecFix == InitFix /\ [][NextFix]_vars

\* autoFixYaml's pure part on the longer texts made of keys, list items and
\* blank lines.
SpecRun == InitRun /\ [][NextFix]_vars

----------------------------------------------------------------------------
(* The earlier variant of autoFixYaml kept in src/unnamed/part_001.  Its    *)
(* normalizer and classifier (lines 56-76) are the text of the current      *)
(* ones; its loop (lines 83-147) pushes key lines and other lines raw and   *)
(* places list items by five tests in a row.                                *)

\* Line 123: /^\s*-\s+/.test(prevOut)
MatchesItem(l) ==
    /\ Len(l) >= LeadingSpace(l) + 2
    /\ l[LeadingSpace(l) + 1] = "-"
    /\ IsSpace(l[LeadingSpace(l) + 2])

\* Line 122: the line emitted last, or the empty text.
PrevOut(o) == IF o # <<>> THEN o[Len(o)] ELSE <<>>

\* The branch of the earlier loop body a line at index k takes, in the
\* order the source tests them: blank (86), key (97), list right after the
\* start of a run (106), list not right of the open key (111-113), list
\* after an emitted list line (123), list at indent 0 (131), any other list
\* (138), anything else (144).  "stack" is the mapping stack after the pop
\* loop.
OldBranch(L, k, stack, st) ==
    IF L.trimmed = <<>> THEN "blank"
    ELSE IF L.isKey THEN "key"
    ELSE IF L.isList THEN
        IF st.lastListBlockStart = k - 1 /\ st.lastListIndent # NULL
        THEN "listInRun"
        ELSE IF stack # <<>> /\ L.indent <= stack[Len(stack)]
        THEN "listLeftOfKey"
        ELSE IF MatchesItem(PrevOut(st.out)) THEN "listAfterList"
        ELSE IF L.indent = 0 THEN "listTopZero"
        ELSE "listOwn"
    ELSE "other"

\* Lines 91-95 of the earlier variant: the same pop loop.
OldStack(L, st) ==
    IF L.trimmed = <<>> THEN st.mappingStack
    ELSE PopStack(st.mappingStack, L.indent)

\* One iteration of the earlier for loop (lines 83-147) on line record L at
\* index k.
OldLoopBody(L, k, st) ==
    LET stack == OldStack(L, st)
        b == OldBranch(L, k, stack, st)
    IN  CASE b = "blank" ->
               [st EXCEPT !.out = Append(@, L.raw)]
          [] b = "key" ->
               [out |-> Append(st.out, L.raw),
                mappingStack |-> Append(stack, L.indent),
                lastListIndent |-> NULL,
                lastListBlockStart |-> -1]
          [] b = "listInRun" ->
               [out |-> Append(st.out, Spaces(st.lastListIndent[1]) \o L.trimmed),
                mappingStack |-> stack,
                lastListIndent |-> st.lastListIndent,
                lastListBlockStart |-> st.lastListBlockStart]
          [] b = "listLeftOfKey" ->
               [out |-> Append(st.out, Spaces(stack[Len(stack)] + 2) \o L.trimmed),
                mappingStack |-> stack,
                lastListIndent |-> Some(stack[Len(stack)] + 2),
                lastListBlockStart |-> k]
          [] b = "listAfterList" ->
               [out |-> Append(st.out, Spaces(LeadingSpace(PrevOut(st.out))) \o L.trimmed),
                mappingStack |-> stack,
                lastListIndent |-> Some(LeadingSpace(PrevOut(st.out))),
                lastListBlockStart |-> k]
          [] b = "listTopZero" ->
               [out |-> Append(st.out, Spaces(2) \o L.trimmed),
                mappingStack |-> stack,
                lastListIndent |-> Some(2),
                lastListBlockStart |-> k]
          [] b = "listOwn" ->
               [out |-> Append(st.out, L.raw),
                mappingStack |-> stack,
                lastListIndent |-> Some(L.indent),
                lastListBlockStart |-> k]
          [] OTHER ->
               [out |-> Append(st.out, L.raw),
                mappingStack |-> stack,
                lastListIndent |-> NULL,
                lastListBlockStart |-> -1]

\* Lines 56-81 of the earlier variant: the normalizer, the classifier and
\* the loop state before the first line.
OldNormalize ==
    /\ pc = "start"
    /\ fixed' = Normalize(input)
    /\ lines' = ClassifyAll(Normalize(input))
    /\ out' = LoopInit.out
    /\ mappingStack' = LoopInit.mappingStack
    /\ lastListIndent' = LoopInit.lastListIndent
    /\ lastListBlockStart' = LoopInit.lastListBlockStart
    /\ i' = 0
    /\ rule' = <<>>
    /\ pc' = "loop"
    /\ UNCHANGED editorVars

\* Lines 83-147 of the earlier variant: one iteration.
OldLoop ==
    /\ pc = "loop"
    /\ i < Len(lines)
    /\ LET st == [out |-> out, mappingStack |-> mappingStack,
                  lastListIndent |-> lastListIndent,
                  lastListBlockStart |-> lastListBlockStart]
           nx == OldLoopBody(lines[i + 1], i, st)
       IN  /\ out' = nx.out
           /\ mappingStack' = nx.mappingStack
           /\ lastListIndent' = nx.lastListIndent
           /\ lastListBlockStart' = nx.lastListBlockStart
           /\ rule' = Append(rule, OldBranch(lines[i + 1], i, OldStack(lines[i + 1], st), st))
    /\ i' = i + 1
    /\ UNCHANGED <<pc, fixed, lines>>
    /\ UNCHANGED editorVars

\* Line 149 of the earlier variant: fixed = out.join("\n")
OldJoin ==
    /\ pc = "loop"
    /\ i = Len(lines)
    /\ fixed' = Join(out)
    /\ pc' = "joined"
    /\ UNCHANGED <<lines, i, out, mappingStack, lastListIndent, lastListBlockStart, rule>>
    /\ UNCHANGED editorVars

NextOld == OldNormalize \/ OldLoop \/ OldJoin

\* The pure part of the earlier variant on the line-structured texts.
SpecOld == InitFix /\ [][NextOld]_vars

----------------------------------------------------------------------------
(* The strict parser and the serializer, yaml.load and yaml.dump of         *)
(* js-yaml.  The library is not part of the repository: load is an unknown  *)
(* deterministic function of the text.  Its answer for a text is chosen     *)
(* when the text is first parsed and is the same ever after.  An answer is  *)
(* either a value, carried as the text yaml.dump serializes it to, or a     *)
(* thrown Error with a message and an optional mark (0-based line, column). *)

Answer(ok, dump, message, mark) ==
    [ok |-> ok, dump |-> dump, message |-> message, mark |-> mark]

\* Canonical texts yaml.dump may produce: 'a:\n  - 1\n', and '' for an empty
\* document.
DumpTexts == {<<"a", ":", LF, SP, SP, "-", SP, "1", LF>>, <<>>}

\* Messages of thrown errors; the empty one is an Error without message.
Messages == {<<"bad indentation of a sequence entry">>, <<>>}

\* Marks of thrown errors: none, or line 1 column 0 (0-based).
Marks == {NULL, <<1, 0>>}

LoadAnswers ==
    {Answer(TRUE, d, <<>>, NULL) : d \in DumpTexts}
        \cup {Answer(FALSE, <<>>, m, mk) : m \in Messages, mk \in Marks}

\* yaml.load(t) answers r: the answer it gave before, or a first answer.
Loads(t, r) ==
    /\ r \in LoadAnswers
    /\ IF t \in DOMAIN loaded THEN r = loaded[t]
       ELSE Cardinality(DOMAIN loaded) < MaxParsed
    /\ loaded' = [x \in DOMAIN loaded \cup {t} |-> IF x = t THEN r ELSE loaded[x]]

----------------------------------------------------------------------------
(* The editor: YmlEditor.tsx lines 11-196 and the buttons of lines 227-290. *)

\* Line 149: the fallback diagnostic.
Fallback == <<"YML has syntax errors that cannot be automatically corrected">>

\* Lines 148-159 without the fallback of line 151.
DiagnosticNoFallback(r) ==
    r.message \o (IF r.mark # NULL
                  THEN <<" (line ", ToString(r.mark[1] + 1), ", col ",
                         ToString(r.mark[2] + 1), ")">>
                  ELSE <<>>)

\* Lines 148-159 with the position left 0-based.
DiagnosticZeroBased(r) ==
    (IF r.message # <<>> THEN r.message ELSE Fallback)
        \o (IF r.mark # NULL
            THEN <<" (line ", ToString(r.mark[1]), ", col ",
                   ToString(r.mark[2]), ")">>
            ELSE <<>>)

\* Lines 148-159: msg = err.message || fallback, then the position appended.
Diagnostic(r) ==
    (IF r.message # <<>> THEN r.message ELSE Fallback)
        \o (IF r.mark # NULL
            THEN <<" (line ", ToString(r.mark[1] + 1), ", col ",
                   ToString(r.mark[2] + 1), ")">>
            ELSE <<>>)

\* A variant of handleError that only notifies.
handleErrorToastOnly(title, msg) ==
    /\ toasts' = <<title>>
    /\ UNCHANGED error

\* Lines 24-27: handleError(title, msg)
handleError(title, msg) ==
    /\ error' = msg
    /\ toasts' = <<title>>

\* What lastOp records of an edit event: the value the event carries.
EditOp(val) == [op |-> "edit", ok |-> TRUE, val |-> val]

\* A variant of Edit that lets a pending timeout stand.
EditKeepsPending(val) ==
    /\ timer' = (IF timer # NULL THEN timer ELSE Some(val))
    /\ toasts' = <<>>
    /\ lastOp' = EditOp(val)
    /\ UNCHANGED <<input, output, error, loaded>>
    /\ UNCHANGED fixVars

\* Lines 13-16, 253: an edit event; the pending timeout is replaced.
Edit(val) ==
    /\ timer' = Some(val)
    /\ toasts' = <<>>
    /\ lastOp' = EditOp(val)
    /\ UNCHANGED <<input, output, error, loaded>>
    /\ UNCHANGED fixVars

\* Lines 15, 192-194: the timeout fires and commits its value.
TimerFire ==
    /\ timer # NULL
    /\ input' = timer[1]
    /\ timer' = NULL
    /\ toasts' = <<>>
    /\ lastOp' = Op("commit", TRUE)
    /\ UNCHANGED <<output, error, loaded>>
    /\ UNCHANGED fixVars

\* A variant of FormatThrew in which serializing an empty document throws.
FormatThrewOnEmptyDump(r) == ~r.ok \/ r.dump = <<>>

\* Lines 30-36: whether the try block of formatYaml throws.
FormatThrew(r) == ~r.ok

\* A variant of FormatFailed that falls back to showing the input text.
FormatFailedShowsInput(r) ==
    /\ handleError("Error", r.message)
    /\ output' = input

\* Lines 36-38: the catch block of formatYaml; only handleError runs.
FormatFailed(r) ==
    /\ handleError("Error", r.message)
    /\ UNCHANGED output

\* Lines 29-39 and 271-273 (the button is disabled while input is empty).
formatYaml ==
    /\ input # <<>>
    /\ \E r \in LoadAnswers :
        /\ Loads(input, r)
        /\ IF FormatThrew(r)
           THEN /\ FormatFailed(r)
                /\ lastOp' = Op("format", FALSE)
           ELSE /\ output' = r.dump
                /\ error' = <<>>
                /\ toasts' = <<"Success">>
                /\ lastOp' = Op("format", TRUE)
    /\ UNCHANGED <<input, timer>>
    /\ UNCHANGED fixVars

\* A variant of CheckPassed that also shows the serialized value.
CheckPassedShowsDump(r) ==
    /\ output' = r.dump
    /\ error' = <<>>
    /\ toasts' = <<"Valid YML">>

\* Lines 44-45: the effects of checkYaml when yaml.load returns.
CheckPassed(r) ==
    /\ error' = <<>>
    /\ toasts' = <<"Valid YML">>
    /\ UNCHANGED output

\* Lines 41-49 and 227-231.
checkYaml ==
    /\ input # <<>>
    /\ \E r \in LoadAnswers :
        /\ Loads(input, r)
        /\ IF r.ok
           THEN /\ CheckPassed(r)
                /\ lastOp' = Op("check", TRUE)
           ELSE /\ handleError("Invalid YML", r.message)
                /\ lastOp' = Op("check", FALSE)
                /\ UNCHANGED output
    /\ UNCHANGED <<input, timer>>
    /\ UNCHANGED fixVars

\* A variant of AutoFixFailed that drops the reconstructed text.
AutoFixFailedKeepsOutput(r, fx) ==
    /\ error' = Diagnostic(r)
    /\ UNCHANGED output
    /\ toasts' = <<"Cannot auto-fix">>
    /\ UNCHANGED input

\* A variant of AutoFixFailed that keeps a diagnostic already shown.
AutoFixFailedKeepsFirstError(r, fx) ==
    /\ error' = (IF error # <<>> THEN error ELSE Diagnostic(r))
    /\ output' = fx
    /\ toasts' = <<"Cannot auto-fix">>
    /\ UNCHANGED input

\* Lines 146-167: the effects of autoFixYaml when yaml.load throws on fx.
AutoFixFailed(r, fx) ==
    /\ error' = Diagnostic(r)
    /\ output' = fx
    /\ toasts' = <<"Cannot auto-fix">>
    /\ UNCHANGED input

\* Lines 52-178 and 236-240; lines 169-177 catch nothing, lines 54-130
\* cannot throw on a string.
autoFixYaml ==
    /\ input # <<>>
    /\ \E fx \in {FixText(input)} : \E r \in LoadAnswers :
        /\ Loads(fx, r)
        /\ IF r.ok
           THEN /\ input' = r.dump
                /\ output' = r.dump
                /\ error' = <<>>
                /\ toasts' = <<"Auto-fixed">>
                /\ lastOp' = Op("autofix", TRUE)
           ELSE /\ AutoFixFailed(r, fx)
                /\ lastOp' = Op("autofix", FALSE)
    /\ UNCHANGED timer
    /\ UNCHANGED fixVars

\* Lines 180-188 and 277-281: navigator.clipboard.writeText exists or not.
copyToClipboard ==
    /\ output # <<>>
    /\ \E supported \in BOOLEAN :
        IF supported
        THEN /\ toasts' = <<"Copied">>
             /\ lastOp' = Op("copy", TRUE)
             /\ UNCHANGED error
        ELSE /\ handleError("Clipboard Error", <<"Your browser does not support copying">>)
             /\ lastOp' = Op("copy", FALSE)
    /\ UNCHANGED <<input, output, timer, loaded>>
    /\ UNCHANGED fixVars

\* Texts the user types or pastes: white space only, an unmatched bracket,
\* a tab-indented list under a key.
EditTexts == {<<SP>>, <<"[">>, <<"a", ":", LF, TAB, "-", SP, "1">>}

\* Lines 20-22: the state after construction.
Init ==
    /\ input = <<>>
    /\ output = <<>>
    /\ error = <<>>
    /\ timer = NULL
    /\ toasts = <<>>
    /\ lastOp = Op("none", TRUE)
    /\ loaded = <<>>
    /\ pc = "idle"
    /\ fixed = <<>>
    /\ lines = <<>>
    /\ i = 0
    /\ out = <<>>
    /\ mappingStack = <<>>
    /\ lastListIndent = NULL
    /\ lastListBlockStart = -1
    /\ rule = <<>>

Next ==
    \/ \E val \in EditTexts : Edit(val)
    \/ TimerFire
    \/ formatYaml
    \/ checkYaml
    \/ autoFixYaml
    \/ copyToClipboard

Spec == Init /\ [][Next]_vars

----------------------------------------------------------------------------
(* Vocabulary of the properties of the unfolded body.                       *)

\* The loop has processed line k (1-based).
Processed(k) == pc \in {"loop", "joined"} /\ k \in 1..Len(out)

NonBlank(k) == lines[k].trimmed # <<>>

\* Line k ends with a colon and does not start with a dash and a space.
PlainKey(k) == NonBlank(k) /\ lines[k].isKey /\ ~lines[k].isList

\* Line k starts with a dash and a space and does not end with a colon.
PlainItem(k) == NonBlank(k) /\ lines[k].isList /\ ~lines[k].isKey

\* Line k starts with a dash and a space, whatever it ends with.
DashLine(k) == NonBlank(k) /\ lines[k].isList

\* The indent at which line k was emitted.
EmittedIndent(k) == LeadingSpace(out[k])

Top(stack) == stack[Len(stack)]

\* The text of the given lines.
Text(ls) == Join(ls)

----------------------------------------------------------------------------
(* C1.  A list-item line that immediately follows a mapping-key line at     *)
(* indent K is emitted at indent K+2, whatever its original indent; the     *)
(* lines 'a:', '- 1', '- 2' become 'a:', '  - 1', '  - 2'.                  *)
C1_ItemAfterKeyAtKPlus2 ==
    \A k \in 1..(Len(out) - 1) :
        (Processed(k + 1) /\ PlainKey(k) /\ PlainItem(k + 1))
            => EmittedIndent(k + 1) = lines[k].indent + 2

----------------------------------------------------------------------------
(* C2.  All lines of a maximal contiguous run of list-item lines are        *)
(* emitted with the same indentation, also when the mapping stack is        *)
(* popped part-way through the run.  Stated on each pair of neighbours.     *)
C2_RunSameIndent ==
    \A k \in 1..(Len(out) - 1) :
        (Processed(k + 1) /\ PlainItem(k) /\ PlainItem(k + 1))
            => EmittedIndent(k + 1) = EmittedIndent(k)

(* C2 as amended.  The line just processed, when it and the line before it  *)
(* are list items: if the pop step left a key on the stack other than the   *)
(* one the line before was placed under, the line is emitted at that key's  *)
(* indent + 2; otherwise (stack empty, or the same key on top) it is        *)
(* emitted at the indent of the line before it.                             *)
C2_RunAlignedUnlessOuterKey ==
    (Processed(i) /\ i >= 2 /\ PlainItem(i - 1) /\ PlainItem(i))
        => IF mappingStack # <<>> /\ EmittedIndent(i - 1) # Top(mappingStack) + 2
           THEN EmittedIndent(i) = Top(mappingStack) + 2
           ELSE EmittedIndent(i) = EmittedIndent(i - 1)

\* A run whose second line has another original indent than the first and
\* popped the key the first was placed under, the two emitted alike.
C2_Witness ==
    /\ Processed(i) /\ i >= 2 /\ PlainItem(i - 1) /\ PlainItem(i)
    /\ rule[i - 1] = "listUnderKey"
    /\ mappingStack = <<>>
    /\ lines[i].indent # lines[i - 1].indent
    /\ EmittedIndent(i) = EmittedIndent(i - 1)

----------------------------------------------------------------------------
(* C9.  With no mapping context open and no list run active a list-item     *)
(* line is emitted at indent 0 and starts a run at indent 0; so when every  *)
(* line of the input is a list item, every line is emitted at indent 0.     *)
C9_TopLevelItemsAtZero ==
    /\ (Processed(i) /\ i >= 1 /\ rule[i] = "listTop")
           => /\ out[i] = lines[i].trimmed
              /\ lastListIndent = Some(0)
    /\ (pc \in {"loop", "joined"} /\ \A k \in 1..Len(lines) : PlainItem(k))
           => \A k \in 1..Len(out) : out[k] = lines[k].trimmed

\* The lines '- 1', '  - 1', '- 1' reconstructed to three lines at indent 0.
C9_Witness ==
    /\ pc = "joined"
    /\ input = Text(<<ItemLine, Spaces(2) \o ItemLine, ItemLine>>)
    /\ rule = <<"listTop", "listInRun", "listInRun">>
    /\ fixed = Text(<<ItemLine, ItemLine, ItemLine>>)

----------------------------------------------------------------------------
(* C10.  Every non-blank line whose trimmed content begins with a dash and  *)
(* a space is handled by the list-item rule (no push onto the mapping       *)
(* stack), also when it ends with a colon, as '- name:' does.               *)
C10_DashLinesTakeListRule ==
    \A k \in 1..Len(rule) :
        (Processed(k) /\ DashLine(k)) => rule[k] \in ListBranches

(* C10 as amended.  A dash line that does not end with a colon takes the    *)
(* list-item rule and pushes nothing; a dash line that ends with a colon    *)
(* takes the mapping-key rule: it is emitted at its own indent and its      *)
(* indent is pushed onto the mapping stack.                                 *)
C10_DashLinesByColon ==
    /\ \A k \in 1..Len(rule) :
           (Processed(k) /\ DashLine(k))
               => IF lines[k].isKey
                  THEN rule[k] = "key" /\ EmittedIndent(k) = lines[k].indent
                  ELSE rule[k] \in ListBranches
    /\ (Processed(i) /\ i >= 1 /\ DashLine(i))
           => IF lines[i].isKey
              THEN mappingStack # <<>> /\ Top(mappingStack) = lines[i].indent
              ELSE mappingStack = <<>> \/ Top(mappingStack) < lines[i].indent

\* ' - b:' just processed by the key rule, its indent 1 on the stack, and a
\* plain list item processed before it by the list rule.
C10_Witness ==
    /\ Processed(i) /\ i >= 2
    /\ lines[i].raw = Spaces(1) \o ItemKeyLine
    /\ rule[i] = "key"
    /\ mappingStack # <<>> /\ Top(mappingStack) = 1
    /\ PlainItem(i - 1) /\ rule[i - 1] \in ListBranches

----------------------------------------------------------------------------
(* C7.  The normalizer is idempotent: normalizing the normalized text       *)
(* gives the same text again, also for lines that end in several commas or  *)
(* in white space followed by a comma.                                      *)
C7_NormalizeIdempotent ==
    (pc = "loop" /\ i = 0) => Normalize(fixed) = fixed

----------------------------------------------------------------------------
(* C8.  The text produced by the normalizer and the text produced by the    *)
(* reconstruction pass hold no tab and no carriage return.                  *)
NoTabNoCR(s) == \A k \in 1..Len(s) : s[k] # TAB /\ s[k] # CR

C8_NoTabNoCR ==
    /\ pc \in {"loop", "joined"} => NoTabNoCR(fixed)
    /\ \A k \in 1..Len(out) : NoTabNoCR(out[k])

\* A text with two tabs and a carriage return, reconstructed.
C8_Witness ==
    /\ pc = "joined"
    /\ Cardinality({k \in 1..Len(input) : input[k] = TAB}) >= 2
    /\ \E k \in 1..Len(input) : input[k] = CR
    /\ NoTabNoCR(fixed)

----------------------------------------------------------------------------
(* C3.  For every input, whether the strict parser returns or throws, one   *)
(* AutoFix invocation ends in exactly one of two outcomes: success (error   *)
(* cleared, input and output set to the canonical text) or failure (error   *)
(* set to a message); nothing escapes the handler.                          *)
C3_AutoFixSucceedsOrFails ==
    lastOp.op = "autofix" =>
        /\ lastOp.ok \in BOOLEAN
        /\ Len(toasts) = 1
        /\ IF lastOp.ok
           THEN /\ error = <<>>
                /\ output = input
                /\ \E t \in DOMAIN loaded : loaded[t].ok /\ loaded[t].dump = output
           ELSE /\ error # <<>>
                /\ FixText(input) \in DOMAIN loaded
                /\ ~loaded[FixText(input)].ok

\* AutoFix has just failed on the unmatched bracket with an Error that has
\* no message and no mark.
C3_Witness ==
    /\ lastOp = Op("autofix", FALSE)
    /\ input = <<"[">>
    /\ loaded[<<"[">>].message = <<>>
    /\ loaded[<<"[">>].mark = NULL
    /\ error = Fallback

----------------------------------------------------------------------------
(* C4.  When the strict parse of the reconstructed text fails inside        *)
(* AutoFix, the output buffer is set to the reconstructed text, the error   *)
(* buffer to the diagnostic, and the input buffer is left unchanged.        *)
C4_FailedAutoFixKeepsFixedText ==
    [][(lastOp'.op = "autofix" /\ ~lastOp'.ok)
          => \A fx \in {FixText(input)} :
                 /\ input' = input
                 /\ output' = fx
                 /\ fx \in DOMAIN loaded'
                 /\ error' = Diagnostic(loaded'[fx])]_vars

\* AutoFix has just failed on the tab-indented text: the output holds the
\* text with the tab expanded, the input still holds the tab.
C4_Witness ==
    /\ lastOp = Op("autofix", FALSE)
    /\ input = <<"a", ":", LF, TAB, "-", SP, "1">>
    /\ output = <<"a", ":", LF, SP, SP, "-", SP, "1">>
    /\ error = <<"bad indentation of a sequence entry", " (line ", "2", ", col ", "1", ")">>

----------------------------------------------------------------------------
(* C5.  Validate (checkYaml) never changes the input buffer or the output   *)
(* buffer, on success and on failure alike; of the editor's buffers it may  *)
(* change only the error buffer.                                            *)
C5_ValidateKeepsBuffers ==
    [][lastOp'.op = "check" => (input' = input /\ output' = output)]_vars

\* Validate has just failed while the output buffer holds an earlier result.
C5_Witness ==
    /\ lastOp = Op("check", FALSE)
    /\ output # <<>>
    /\ output # input
    /\ error # <<>>

----------------------------------------------------------------------------
(* C6.  Validate succeeds iff the strict parse of the input succeeds, and   *)
(* Format on the same input buffer ends as Validate does: each ends as the  *)
(* strict parse of the input buffer does.                                   *)
C6_ValidateAndFormatFollowParse ==
    lastOp.op \in {"check", "format"} =>
        /\ input \in DOMAIN loaded
        /\ lastOp.ok = loaded[input].ok

\* Format has just succeeded on a text whose document is empty.
C6_Witness ==
    /\ lastOp = Op("format", TRUE)
    /\ input = <<SP>>
    /\ output = <<>>
    /\ error = <<>>

----------------------------------------------------------------------------
(* C11.  Format (formatYaml) never changes the input buffer and repairs     *)
(* nothing: it parses the input buffer as it stands.  When that parse fails *)
(* it sets only the error buffer (to the parser's message) and the output   *)
(* buffer stays exactly as it was before the call; when it succeeds the     *)
(* output buffer becomes the serialization of the parsed value and the      *)
(* error buffer is cleared.                                                 *)
C11_FormatKeepsInputAndFailedOutput ==
    [][lastOp'.op = "format" =>
        /\ input' = input
        /\ input \in DOMAIN loaded'
        /\ IF loaded'[input].ok
           THEN /\ lastOp'.ok
                /\ output' = loaded'[input].dump
                /\ error' = <<>>
           ELSE /\ ~lastOp'.ok
                /\ output' = output
                /\ error' = loaded'[input].message]_vars

\* Format has just failed on an input that differs from the text an earlier
\* call left in the output buffer, which is still there.
C11_Witness ==
    /\ lastOp = Op("format", FALSE)
    /\ output = <<"a", ":", LF, SP, SP, "-", SP, "1", LF>>
    /\ input = <<"[">>
    /\ error = <<"bad indentation of a sequence entry">>

----------------------------------------------------------------------------
\* The stack grows strictly from bottom to top.
StrictlyIncreasing(stack) ==
    \A a \in 1..(Len(stack) - 1) : stack[a] < stack[a + 1]

\* The mapping stack as the pop loop left it for line k, the line processed
\* last: a key line pushes its own indent on it afterwards, no other line
\* touches it.
StackAfterPop(k) ==
    IF lines[k].isKey
    THEN SubSeq(mappingStack, 1, Len(mappingStack) - 1)
    ELSE mappingStack

(* C13.  At every step of the reconstruction loop the mapping stack is      *)
(* strictly increasing from bottom to top, and right after the pop loop for *)
(* a non-blank line of indent I the stack is empty or its top is strictly   *)
(* less than I.                                                             *)
C13_StackStrictlyIncreasing ==
    pc \in {"loop", "joined"} =>
        /\ StrictlyIncreasing(mappingStack)
        /\ (i >= 1 /\ NonBlank(i)) =>
              \/ StackAfterPop(i) = <<>>
              \/ Top(StackAfterPop(i)) < lines[i].indent

\* The third line is a key at the indent of the key before it: the pop loop
\* removed that key's entry and left the outer key's, and the stack is two
\* deep again.
C13_Witness ==
    /\ pc = "loop"
    /\ i = 3
    /\ PlainKey(1) /\ PlainKey(2) /\ PlainKey(3)
    /\ lines[1].indent = 0
    /\ lines[2].indent = 1
    /\ lines[3].indent = 1
    /\ mappingStack = <<0, 1>>

----------------------------------------------------------------------------
\* The line starts with spaces only and ends with no white space.
SpaceIndented(raw) ==
    /\ \A a \in 1..LeadingSpace(raw) : raw[a] = SP
    /\ StripTrailing(raw) = raw

(* C14.  As stated: the loop changes only the leading indentation of        *)
(* list-item lines; every blank, key and other line of the normalized text  *)
(* is emitted identical to its normalized form, and every list-item line    *)
(* keeps its trimmed content.                                               *)
C14_OnlyListIndentChanges ==
    \A k \in 1..Len(out) :
        Processed(k) =>
            IF PlainItem(k)
            THEN Trim(out[k]) = lines[k].trimmed
            ELSE out[k] = lines[k].raw

(* C14, amended.  Every line keeps its trimmed content.  A blank line is    *)
(* emitted identical to its normalized form.  A key line or other line is   *)
(* emitted as as many spaces as it had leading white-space characters,      *)
(* followed by its trimmed content: that is its normalized form exactly     *)
(* when the line was indented with spaces only and ends with no white       *)
(* space; a leading form feed becomes a space and white space that the      *)
(* comma removal left at the end of the line is dropped.                    *)
C14_NonListLinesKeepIndentAndContent ==
    \A k \in 1..Len(out) :
        Processed(k) =>
            /\ Trim(out[k]) = lines[k].trimmed
            /\ ~NonBlank(k) => out[k] = lines[k].raw
            /\ (NonBlank(k) /\ ~PlainItem(k)) =>
                  /\ out[k] = Spaces(lines[k].indent) \o lines[k].trimmed
                  /\ SpaceIndented(lines[k].raw) <=> out[k] = lines[k].raw

\* A key line indented by a form feed has been emitted indented by a space.
C14_Witness ==
    /\ pc = "joined"
    /\ input = <<FF, "a", ":">>
    /\ lines[1].raw = <<FF, "a", ":">>
    /\ out = << <<SP, "a", ":">> >>

----------------------------------------------------------------------------
\* Line k is a list item, line j an earlier list item, and the lines between
\* them are blank and at least one.
ItemAcrossBlanks(j, k) ==
    /\ j >= 1
    /\ j + 1 < k
    /\ PlainItem(j)
    /\ PlainItem(k)
    /\ \A m \in (j + 1)..(k - 1) : ~NonBlank(m)

(* C15.  An iteration of the loop on a blank line leaves the mapping stack, *)
(* lastListIndent and lastListBlockStart as they were; and an iteration on  *)
(* a list-item line that follows one or more blank lines after a list item, *)
(* and has no mapping open after the pop loop, emits it at the indent at    *)
(* which the list item before the blank lines was emitted.                  *)
C15_BlankKeepsRun ==
    [][(pc = "loop" /\ pc' = "loop" /\ i' = i + 1) =>
        /\ ~NonBlank(i + 1) =>
              /\ mappingStack' = mappingStack
              /\ lastListIndent' = lastListIndent
              /\ lastListBlockStart' = lastListBlockStart
              /\ out' = Append(out, lines[i + 1].raw)
        /\ \A j \in 1..i :
              (ItemAcrossBlanks(j, i + 1) /\ mappingStack' = <<>>) =>
                  LeadingSpace(out'[i + 1]) = LeadingSpace(out[j])]_vars

\* 'a:', an item under it emitted at 2, a blank line, and an item at indent 0
\* that closes the mapping: the last item is emitted at 2 as well.
C15_Witness ==
    /\ pc = "loop"
    /\ i = 4
    /\ PlainKey(1)
    /\ ItemAcrossBlanks(2, 4)
    /\ lines[4].indent = 0
    /\ mappingStack = <<>>
    /\ EmittedIndent(2) = 2
    /\ EmittedIndent(4) = 2

----------------------------------------------------------------------------
\* The non-blank lines among the first k.
NonBlanksUpTo(k) == {j \in 1..k : NonBlank(j)}

\* The most recently processed non-blank line, given that there is one.
LastNonBlank(k) ==
    CHOOSE j \in NonBlanksUpTo(k) : \A m \in NonBlanksUpTo(k) : m <= j

(* C16.  At every point of the reconstruction loop lastListIndent is        *)
(* non-null exactly when the most recently processed non-blank line was a   *)
(* list-item line, and it is then the indent at which that line was         *)
(* emitted; after a key line or any other line it is null.                  *)
C16_RunIndentTracksLastItem ==
    pc \in {"loop", "joined"} =>
        IF NonBlanksUpTo(i) = {}
        THEN lastListIndent = NULL
        ELSE IF PlainItem(LastNonBlank(i))
             THEN lastListIndent = Some(EmittedIndent(LastNonBlank(i)))
             ELSE lastListIndent = NULL

\* An item moved from indent 1 to indent 2 under 'a:' and then a blank line:
\* lastListIndent still holds 2.
C16_Witness ==
    /\ pc = "loop"
    /\ i = 3
    /\ PlainKey(1)
    /\ PlainItem(2)
    /\ lines[2].indent = 1
    /\ ~NonBlank(3)
    /\ EmittedIndent(2) = 2
    /\ lastListIndent = Some(2)

----------------------------------------------------------------------------
RECURSIVE BreakLines(_, _)
\* The lines of a text, taking CRLF, CR and LF each as one line break; cur is
\* the line being read.
BreakLines(s, cur) ==
    IF s = <<>> THEN <<cur>>
    ELSE IF Len(s) >= 2 /\ s[1] = CR /\ s[2] = LF
         THEN <<cur>> \o BreakLines(SubSeq(s, 3, Len(s)), <<>>)
         ELSE IF s[1] \in {CR, LF}
              THEN <<cur>> \o BreakLines(Tail(s), <<>>)
              ELSE BreakLines(Tail(s), Append(cur, s[1]))

InputLines(s) == BreakLines(s, <<>>)

IsInk(c) == ~IsSpace(c) /\ c # ","

\* The characters of a line that are neither white space nor commas.
Ink(l) == SelectSeq(l, IsInk)

(* C17.  The normalizer and the reconstruction loop preserve the number and *)
(* the order of the lines: the normalized text, the classified lines and    *)
(* the reconstructed text each have exactly one line per line of the input  *)
(* (CRLF, CR and LF each counting as one line break), and the i-th emitted  *)
(* line carries the characters of the i-th input line, white space and      *)
(* commas aside.                                                            *)
C17_LinesPreserved ==
    pc \in {"loop", "joined"} =>
        /\ Len(lines) = Len(InputLines(input))
        /\ Len(Split(fixed)) = Len(InputLines(input))
        /\ pc = "joined" => Len(out) = Len(InputLines(input))
        /\ \A k \in 1..Len(out) : Ink(out[k]) = Ink(InputLines(input)[k])

\* The text 'a' CRLF CR has three lines, the last two empty; so has the
\* reconstructed text.
C17_Witness ==
    /\ pc = "joined"
    /\ input = <<"a", CR, LF, CR>>
    /\ out = << <<"a">>, <<>>, <<>> >>
    /\ fixed = <<"a", LF, LF>>

----------------------------------------------------------------------------
(* C18.  When the line processed last, of original indent I, was emitted by *)
(* the list-under-a-mapping branch (the stack is non-empty after the pop    *)
(* loop, its top is T), its emitted indent is T+2, which is strictly        *)
(* greater than T and at most I+1: the line is moved right by at most one   *)
(* column and never to or left of its enclosing key.                        *)
C18_UnderKeyWithinOneColumn ==
    (pc \in {"loop", "joined"} /\ i >= 1 /\ rule[i] = "listUnderKey") =>
        /\ mappingStack # <<>>
        /\ EmittedIndent(i) = Top(mappingStack) + 2
        /\ EmittedIndent(i) > Top(mappingStack)
        /\ EmittedIndent(i) <= lines[i].indent + 1

\* A list item one column right of its key 'a:' at indent 1 has been moved
\* right by one column, to indent 3.
C18_Witness ==
    /\ pc = "loop"
    /\ i = 2
    /\ rule[2] = "listUnderKey"
    /\ PlainKey(1)
    /\ lines[1].indent = 1
    /\ lines[2].indent = 2
    /\ mappingStack = <<1>>
    /\ EmittedIndent(2) = 3

----------------------------------------------------------------------------
\* The 1-based form of a 0-based line or column number, as text.
OneBased(n) == ToString(n + 1)

(* C19.  When AutoFix has failed, the error buffer holds the parser's       *)
(* message, or the fixed fallback text when that message is empty; when the *)
(* parser's error carries a mark (0-based line and column) this is followed *)
(* by ' (line L, col C)' with L and C the 1-based line and column, and when *)
(* it carries none nothing follows.  The diagnostic is never empty.         *)
C19_DiagnosticFormat ==
    lastOp = Op("autofix", FALSE) =>
        /\ FixText(input) \in DOMAIN loaded
        /\ error # <<>>
        /\ LET r == loaded[FixText(input)]
               text == IF r.message = <<>> THEN Fallback ELSE r.message
           IN  IF r.mark = NULL
               THEN error = text
               ELSE error = text \o <<" (line ", OneBased(r.mark[1]),
                                      ", col ", OneBased(r.mark[2]), ")">>

\* AutoFix has just failed on '[' with a parser error marked at line 1,
\* column 0 (0-based): the diagnostic names line 2, col 1.
C19_Witness ==
    /\ lastOp = Op("autofix", FALSE)
    /\ input = <<"[">>
    /\ loaded[<<"[">>].mark = <<1, 0>>
    /\ error = <<"bad indentation of a sequence entry", " (line ", "2", ", col ", "1", ")">>

----------------------------------------------------------------------------
\* The handlers that parse: Format, Validate and AutoFix.
Parsing == {"format", "check", "autofix"}

(* C20.  Whatever events came before, every Format, Validate or AutoFix     *)
(* invocation ends as the parse of the text it is given ends (the input     *)
(* buffer, for AutoFix the reconstructed input buffer), whether or not an   *)
(* earlier invocation failed; right after it the error buffer is empty if   *)
(* it succeeded and holds the message of this very failure if it failed;    *)
(* it issues exactly one notification; and it parses at most one new text   *)
(* and repeats no earlier parse.                                            *)
C20_ErrorFollowsEachInvocation ==
    [][lastOp'.op \in Parsing =>
        \A text \in {IF lastOp'.op = "autofix" THEN FixText(input) ELSE input} :
            /\ text \in DOMAIN loaded'
            /\ lastOp'.ok = loaded'[text].ok
            /\ Len(toasts') = 1
            /\ IF loaded'[text].ok
               THEN error' = <<>>
               ELSE error' = IF lastOp'.op = "autofix"
                             THEN Diagnostic(loaded'[text])
                             ELSE loaded'[text].message
            /\ DOMAIN loaded' \subseteq DOMAIN loaded \cup {text}
            /\ \A t \in DOMAIN loaded : loaded'[t] = loaded[t]]_vars

\* Format has just succeeded, with the error buffer cleared and one
\* notification, after an invocation on another text had failed.
C20_Witness ==
    /\ lastOp = Op("format", TRUE)
    /\ error = <<>>
    /\ toasts = <<"Success">>
    /\ output = loaded[input].dump
    /\ \E t \in DOMAIN loaded : t # input /\ ~loaded[t].ok

----------------------------------------------------------------------------
\* The loop state of a fresh invocation: nothing emitted, no mapping open,
\* no list run.
FreshLoop ==
    [out |-> <<>>, mappingStack |-> <<>>, lastListIndent |-> NULL,
     lastListBlockStart |-> -1]

\* The text an invocation reconstructs from text s when it starts afresh.
FreshFix(s) == Join(RunLoop(ClassifyAll(Normalize(s)), 0, FreshLoop).out)

(* C21.  What AutoFix leaves in the input, output and error buffers is a    *)
(* function of the input buffer alone (and of the parser's answer for the   *)
(* reconstructed text, which is the same answer each time that text is      *)
(* parsed): the previous output, the previous error and earlier AutoFix     *)
(* runs do not enter into it, and the reconstructed text is the one a pass  *)
(* computes that starts with an empty mapping stack and a null list run.    *)
C21_AutoFixDependsOnInputOnly ==
    [][lastOp'.op = "autofix" =>
        \A fx \in {FreshFix(input)} :
            /\ fx \in DOMAIN loaded'
            /\ fx \in DOMAIN loaded => loaded'[fx] = loaded[fx]
            /\ <<input', output', error'>> =
                  IF loaded'[fx].ok
                  THEN <<loaded'[fx].dump, loaded'[fx].dump, <<>> >>
                  ELSE <<input, fx, Diagnostic(loaded'[fx])>>]_vars

\* AutoFix has just failed on '[' after operations on another text, one of
\* which had succeeded: the buffers hold what a first run on '[' leaves.
C21_Witness ==
    /\ lastOp = Op("autofix", FALSE)
    /\ input = <<"[">>
    /\ output = <<"[">>
    /\ error = Diagnostic(loaded[<<"[">>])
    /\ \E t \in DOMAIN loaded : t # <<"[">> /\ loaded[t].ok

----------------------------------------------------------------------------
----------------------------------------------------------------------------
(* C23.  As stated: after a successful AutoFix has set the input buffer and *)
(* the output buffer to the same text, a timer callback that fires before   *)
(* any new edit (it was scheduled by an edit made before the AutoFix) does  *)
(* not overwrite the input buffer: the two buffers are still equal after    *)
(* it.                                                                      *)
C23_NoStaleCommitAfterAutoFix ==
    [][(lastOp = Op("autofix", TRUE) /\ lastOp'.op = "commit") =>
        /\ input' = input
        /\ input' = output']_vars

----------------------------------------------------------------------------
(* C24.  As stated: the reconstruction pass is idempotent; applied to the   *)
(* text it has reconstructed it yields that text again, also when mapping   *)
(* keys are nested by a single column.                                      *)
C24_ReconstructIdempotent ==
    pc = "joined" => Reconstruct(fixed) = fixed

----------------------------------------------------------------------------
(* C25.  As stated, of the earlier variant: a list-item line that starts a  *)
(* run right after a key line, and whose indent is not greater than the     *)
(* key's, is emitted at the key's indent + 2 by the branch that tests       *)
(* indent <= parentIndent; so 'a:', '- 1' become 'a:', '  - 1' through it.  *)
C25_LeftOfKeyBranchReindents ==
    \A k \in 1..(Len(out) - 1) :
        (Processed(k + 1) /\ PlainKey(k) /\ PlainItem(k + 1)
            /\ lines[k + 1].indent <= lines[k].indent)
        => /\ rule[k + 1] = "listLeftOfKey"
           /\ EmittedIndent(k + 1) = lines[k].indent + 2

====
